---- MODULE Spec2Model ----
(***************************************************************************)
(* Pairwise sequence alignment plugin (plugins/alignment): the scoring     *)
(* model, the DP matrix, the linear-gap fill for global and local          *)
(* alignment, and the traceback that enumerates every arrow path.          *)
(* One behaviour is one call of Aligner::align on one input.               *)
(***************************************************************************)
EXTENDS Integers, Sequences, FiniteSets, TLC

(***************************************************************************)
(* Bounds of the model.                                                    *)
(***************************************************************************)
\* longest seq1 and longest seq2, in bytes
MaxLen == 2

(***************************************************************************)
(* Program constants.                                                      *)
(***************************************************************************)
I32_MIN == -2147483647 - 1
I32_MAX == 2147483647
NONE == 0
DIAGONAL == 1
UP == 2
LEFT == 4
\* b'-', the gap marker pushed by traceback_recursive
GAP == 45

(***************************************************************************)
(* Input domains.  Bytes: 'A', 'W', '-', and the two bytes of U+00E9.      *)
(***************************************************************************)
InputBytes == {65, 87, 45, 195, 169}
MatchScores == {1}
MismatchScores == {-2, 5}
GapScores == {-1, 1}
\* gap penalties tried with the matrix scorer (those of the tests)
MatrixGapScores == {-10, -2}
\* bytes tried on the scorers alone: 'A' 'a' 'W' 'w' 'Z' 'z' '-' '@' '`' '['
\* '{' and one byte above 127
ScoreBytes == {65, 97, 87, 119, 90, 122, 45, 64, 96, 91, 123, 233}
\* gap penalties near the ends of i32, tried on the forbidden pair
ExtremeGapScores == {-10, -1073741824, -1073741825, I32_MIN, I32_MAX}
Modes == {"global", "local"}

(***************************************************************************)
(* Generic helpers on sequences and integers.                              *)
(***************************************************************************)
Max2(a, b) == IF a >= b THEN a ELSE b

Reverse(s) == [k \in 1..Len(s) |-> s[Len(s) + 1 - k]]

RECURSIVE SeqsUpTo(_, _)
SeqsUpTo(S, n) ==
    IF n = 0 THEN {<<>>}
    ELSE LET shorter == SeqsUpTo(S, n - 1)
         IN  shorter \cup {Append(s, b) : s \in shorter, b \in S}

\* i32::saturating_add (written so that no intermediate value leaves i32)
saturating_add(a, b) ==
    IF b > 0 /\ a > I32_MAX - b THEN I32_MAX
    ELSE IF b < 0 /\ a < I32_MIN - b THEN I32_MIN
    ELSE a + b

\* i32::saturating_mul (written so that no intermediate value leaves i32)
saturating_mul(a, b) ==
    IF a = 0 \/ b = 0 THEN 0
    ELSE IF a > 0 /\ b > 0
    THEN IF a > I32_MAX \div b THEN I32_MAX ELSE a * b
    ELSE IF a < 0 /\ b < 0
    THEN IF a = I32_MIN \/ b = I32_MIN \/ (0 - a) > I32_MAX \div (0 - b)
         THEN I32_MAX ELSE a * b
    ELSE LET p == IF a > 0 THEN a ELSE b
             q == IF a > 0 THEN b ELSE a
         IN  IF q >= (I32_MIN + (p - 1)) \div p THEN a * b ELSE I32_MIN

\* u8::to_ascii_uppercase
to_ascii_uppercase(b) == IF b >= 97 /\ b <= 122 THEN b - 32 ELSE b

(***************************************************************************)
(* String::from_utf8_lossy: valid UTF-8 is copied, every maximal invalid   *)
(* part is replaced by U+FFFD (EF BF BD).  Strings are their UTF-8 bytes.  *)
(***************************************************************************)
REPLACEMENT == <<239, 191, 189>>

IsCont(b) == b >= 128 /\ b <= 191

\* number of continuation bytes the lead byte asks for (0: not a lead byte)
Utf8Need(b) ==
    IF b >= 194 /\ b <= 223 THEN 1
    ELSE IF b >= 224 /\ b <= 239 THEN 2
    ELSE IF b >= 240 /\ b <= 244 THEN 3
    ELSE 0

\* range allowed for the byte that follows lead byte b
SecondOk(b, c) ==
    CASE b = 224 -> c >= 160 /\ c <= 191
      [] b = 237 -> c >= 128 /\ c <= 159
      [] b = 240 -> c >= 144 /\ c <= 191
      [] b = 244 -> c >= 128 /\ c <= 143
      [] OTHER   -> IsCont(c)

\* how many bytes starting at s[k] form a valid prefix of one scalar value
RECURSIVE Utf8Prefix(_, _, _, _)
Utf8Prefix(s, k, got, need) ==
    IF got = need + 1 THEN got
    ELSE IF k + got > Len(s) THEN got
    ELSE LET c == s[k + got]
             ok == IF got = 1 THEN SecondOk(s[k], c) ELSE IsCont(c)
         IN  IF ok THEN Utf8Prefix(s, k, got + 1, need) ELSE got

RECURSIVE LossyFrom(_, _)
LossyFrom(s, k) ==
    IF k > Len(s) THEN <<>>
    ELSE LET b == s[k]
         IN  IF b < 128 THEN <<b>> \o LossyFrom(s, k + 1)
             ELSE IF Utf8Need(b) = 0 THEN REPLACEMENT \o LossyFrom(s, k + 1)
             ELSE LET got == Utf8Prefix(s, k, 1, Utf8Need(b))
                  IN  IF got = Utf8Need(b) + 1
                      THEN SubSeq(s, k, k + got - 1) \o LossyFrom(s, k + got)
                      ELSE REPLACEMENT \o LossyFrom(s, k + got)

from_utf8_lossy(s) == LossyFrom(s, 1)

\* std::str::from_utf8(s).is_ok()
IsUtf8(s) == from_utf8_lossy(s) = s

(***************************************************************************)
(* scoring.rs: SubstitutionScorer and ScoringConfig.                       *)
(***************************************************************************)
\* a generated BuiltinMatrix: the residues of the header line, upper-cased,
\* and the dim * dim scores in row-major order
BuiltinMatrix(alphabet, scores) == [alphabet |-> alphabet, scores |-> scores]

NoBuiltin == BuiltinMatrix(<<>>, <<>>)

\* the rows and columns of PAM1 for the residues A and W: A-A = 7 and
\* A-W = -inf, stored as i32::MIN (test_pam1_scoring); the W row is taken
\* symmetric with a positive W-W entry
Pam1 == BuiltinMatrix(<<65, 87>>, <<7, I32_MIN, I32_MIN, 13>>)

\* SubstitutionScorer::Simple { match_score, mismatch_score }
Simple(match_score, mismatch_score) ==
    [kind |-> "Simple", match_score |-> match_score,
     mismatch_score |-> mismatch_score, bm |-> NoBuiltin]

\* SubstitutionScorer::Matrix(bm)
Matrix(bm) ==
    [kind |-> "Matrix", match_score |-> 0, mismatch_score |-> 0, bm |-> bm]

is_ascii_alphabetic(b) == (b >= 65 /\ b <= 90) \/ (b >= 97 /\ b <= 122)

\* u8::to_ascii_lowercase
to_ascii_lowercase(b) == IF b >= 65 /\ b <= 90 THEN b + 32 ELSE b

\* Option::None of a lookup_map entry
NoIndex == 0 - 1

\* BuiltinMatrix::lookup_map()[c]: the 0-based index of the residue, which
\* build.rs enters under the byte itself and, for a letter, under both cases
lookup_map(bm, c) ==
    LET hits == {k \in 1..Len(bm.alphabet) :
                    LET b == bm.alphabet[k]
                    IN  \/ c = b
                        \/ /\ is_ascii_alphabetic(b)
                           /\ \/ c = to_ascii_uppercase(b)
                              \/ c = to_ascii_lowercase(b)}
    IN  IF hits = {} THEN NoIndex
        ELSE (CHOOSE k \in hits : \A l \in hits : l <= k) - 1

score_dimension(bm) == Len(bm.alphabet)

\* BuiltinMatrix::score
BuiltinScore(bm, a, b) ==
    LET i == lookup_map(bm, a)
        j == lookup_map(bm, b)
    IN  IF i = NoIndex THEN [ok |-> FALSE, val |-> 0, byte |-> a]
        ELSE IF j = NoIndex THEN [ok |-> FALSE, val |-> 0, byte |-> b]
        ELSE [ok |-> TRUE,
              val |-> bm.scores[i * score_dimension(bm) + j + 1],
              byte |-> 0]

\* score whose Simple scorer compares the bytes as they are
score_CaseSensitive(scorer, a, b) ==
    IF scorer.kind = "Simple"
    THEN IF a = b
         THEN [ok |-> TRUE, val |-> scorer.match_score, byte |-> 0]
         ELSE [ok |-> TRUE, val |-> scorer.mismatch_score, byte |-> 0]
    ELSE BuiltinScore(scorer.bm, a, b)

\* score with the two outcomes of the Simple scorer exchanged
score_Inverted(scorer, a, b) ==
    IF scorer.kind = "Simple"
    THEN IF to_ascii_uppercase(a) = to_ascii_uppercase(b)
         THEN [ok |-> TRUE, val |-> scorer.mismatch_score, byte |-> 0]
         ELSE [ok |-> TRUE, val |-> scorer.match_score, byte |-> 0]
    ELSE BuiltinScore(scorer.bm, a, b)

\* SubstitutionScorer::score; the result is Ok(val) or InvalidCharacter(byte)
score(scorer, a, b) ==
    IF scorer.kind = "Simple"
    THEN IF to_ascii_uppercase(a) = to_ascii_uppercase(b)
         THEN [ok |-> TRUE, val |-> scorer.match_score, byte |-> 0]
         ELSE [ok |-> TRUE, val |-> scorer.mismatch_score, byte |-> 0]
    ELSE BuiltinScore(scorer.bm, a, b)

\* validate that scans the whole sequence and names the last invalid byte
validate_LastInvalid(scorer, seq) ==
    IF scorer.kind = "Simple" THEN [ok |-> TRUE, byte |-> 0]
    ELSE LET bad == {k \in DOMAIN seq : lookup_map(scorer.bm, seq[k]) = NoIndex}
         IN  IF bad = {} THEN [ok |-> TRUE, byte |-> 0]
             ELSE [ok |-> FALSE,
                   byte |-> seq[CHOOSE k \in bad : \A l \in bad : l <= k]]

\* validate that does not look at the first byte of the sequence
validate_SkipsFirst(scorer, seq) ==
    IF scorer.kind = "Simple" THEN [ok |-> TRUE, byte |-> 0]
    ELSE LET bad == {k \in DOMAIN seq :
                        k > 1 /\ lookup_map(scorer.bm, seq[k]) = NoIndex}
         IN  IF bad = {} THEN [ok |-> TRUE, byte |-> 0]
             ELSE [ok |-> FALSE,
                   byte |-> seq[CHOOSE k \in bad : \A l \in bad : k <= l]]

\* SubstitutionScorer::validate; Ok(()) or InvalidCharacter(byte)
validate(scorer, seq) ==
    IF scorer.kind = "Simple" THEN [ok |-> TRUE, byte |-> 0]
    ELSE LET bad == {k \in DOMAIN seq : lookup_map(scorer.bm, seq[k]) = NoIndex}
         IN  IF bad = {} THEN [ok |-> TRUE, byte |-> 0]
             ELSE [ok |-> FALSE,
                   byte |-> seq[CHOOSE k \in bad : \A l \in bad : k <= l]]

is_affine(scoring) == scoring.gap_open # scoring.gap_extend

substitution_score(scoring, a, b) == score(scoring.scorer, a, b)

\* gap_penalty that charges a run of gaps as one gap
gap_penalty_NotMultiplied(scoring, length) ==
    IF length = 0 THEN 0 ELSE scoring.gap_open

gap_penalty(scoring, length) ==
    IF length = 0 THEN 0
    ELSE IF is_affine(scoring)
    THEN saturating_add(scoring.gap_open,
                        saturating_mul(scoring.gap_extend, length - 1))
    ELSE saturating_mul(scoring.gap_open, length)

\* ensure_linear that accepts every configuration
ensure_linear_Unchecked(scoring) == TRUE

\* TRUE iff ensure_linear returns Ok
ensure_linear(scoring) == ~is_affine(scoring)

(***************************************************************************)
(* alignment.rs: Arrows, Cell, DPMatrix.                                   *)
(***************************************************************************)
has_diagonal(a) == a % 2 = 1
has_up(a) == (a \div 2) % 2 = 1
has_left(a) == (a \div 4) % 2 = 1

set_diagonal(a) == IF has_diagonal(a) THEN a ELSE a + DIAGONAL
set_up(a) == IF has_up(a) THEN a ELSE a + UP
set_left(a) == IF has_left(a) THEN a ELSE a + LEFT

\* Cell::new
CellNew(sc) == [score |-> sc, arrows |-> NONE]
\* Cell::with_arrows
with_arrows(sc, arrows) == [score |-> sc, arrows |-> arrows]
\* Cell::default
CellDefault == [score |-> I32_MIN, arrows |-> NONE]

\* DPMatrix::new
DPMatrixNew(rows, cols) ==
    [rows |-> rows, cols |-> cols,
     cells |-> [k \in 1..(rows * cols) |-> CellDefault]]

\* DPMatrix::get; cells is 1-based here, 0-based in the source
get(mx, i, j) == mx.cells[i * mx.cols + j + 1]

\* DPMatrix::set indexing column by column
set_ColumnMajor(mx, i, j, cell) ==
    [mx EXCEPT !.cells[j * mx.rows + i + 1] = cell]

\* DPMatrix::set
set(mx, i, j, cell) == [mx EXCEPT !.cells[i * mx.cols + j + 1] = cell]

NoMatrix == [rows |-> 0, cols |-> 0, cells |-> <<>>]

\* output.rs, DPMatrixOutput::from(&DPMatrix)
DPMatrixOutput(mx) ==
    [rows |-> mx.rows, cols |-> mx.cols,
     scores |-> [k \in DOMAIN mx.cells |-> mx.cells[k].score],
     arrows |-> [k \in DOMAIN mx.cells |-> mx.cells[k].arrows]]

\* the history of calls of DPMatrix::set after one more call on cell (i, j)
Written(w, mx, i, j) == Append(w, <<i, j>>)

(***************************************************************************)
(* State of one call of Aligner::align.                                    *)
(***************************************************************************)
VARIABLES
    mode,           \* "global": GlobalAligner, "local": LocalAligner
    seq1, seq2,     \* the arguments, as byte sequences
    scoring,        \* self.scoring
    pc,             \* position in align
    matrix,         \* the DPMatrix
    writes,         \* history: the cells DPMatrix::set was called on, in order
    ii, jj,         \* loop indices of initialize_matrix and fill_matrix_linear
    max_score,      \* fill_matrix_linear, local branch
    max_positions,
    final_score,
    starts,         \* start positions traceback_all_paths has not visited yet
    stack,          \* pending calls of traceback_recursive, innermost first
    all_paths,
    all_alignments,
    result          \* what align returns

vars == <<mode, seq1, seq2, scoring, pc, matrix, writes, ii, jj, max_score,
          max_positions, final_score, starts, stack, all_paths,
          all_alignments, result>>

n == Len(seq1)
m == Len(seq2)

NoResult ==
    [tag |-> "None", byte |-> 0, gap_open |-> 0, gap_extend |-> 0,
     seq1 |-> <<>>, seq2 |-> <<>>, traceback_paths |-> <<>>,
     alignments |-> <<>>, final_score |-> 0]

\* the texts a caller can pass: lib.rs hands align the bytes of two strings
Texts(maxlen) == {s \in SeqsUpTo(InputBytes, maxlen) : IsUtf8(s)}

ScoringConfigs ==
    {[scorer |-> Simple(ms, mm), gap_open |-> go, gap_extend |-> ge] :
        ms \in MatchScores, mm \in MismatchScores,
        go \in GapScores, ge \in GapScores}
    \cup
    {[scorer |-> Matrix(Pam1), gap_open |-> go, gap_extend |-> ge] :
        go \in MatrixGapScores, ge \in MatrixGapScores}

Init ==
    /\ mode \in Modes
    /\ seq1 \in Texts(MaxLen)
    /\ seq2 \in Texts(MaxLen)
    /\ scoring \in ScoringConfigs
    /\ pc = "ensure_linear"
    /\ matrix = NoMatrix
    /\ writes = <<>>
    /\ ii = 0
    /\ jj = 0
    /\ max_score = 0
    /\ max_positions = <<>>
    /\ final_score = 0
    /\ starts = <<>>
    /\ stack = <<>>
    /\ all_paths = <<>>
    /\ all_alignments = <<>>
    /\ result = NoResult

(***************************************************************************)
(* align: self.scoring.ensure_linear()?                                    *)
(***************************************************************************)
EnsureLinear ==
    /\ pc = "ensure_linear"
    /\ IF ensure_linear(scoring)
       THEN /\ pc' = "validate1"
            /\ UNCHANGED result
       ELSE /\ pc' = "done"
            /\ result' = [NoResult EXCEPT !.tag = "Other",
                                          !.gap_open = scoring.gap_open,
                                          !.gap_extend = scoring.gap_extend]
    /\ UNCHANGED <<mode, seq1, seq2, scoring, matrix, writes, ii,
                   jj, max_score,
                   max_positions, final_score, starts, stack, all_paths,
                   all_alignments>>

(***************************************************************************)
(* align: self.scoring.scorer.validate(seq1)?                              *)
(***************************************************************************)
Validate1 ==
    /\ pc = "validate1"
    /\ LET v == validate(scoring.scorer, seq1)
       IN  IF v.ok
           THEN /\ pc' = "validate2"
                /\ UNCHANGED result
           ELSE /\ pc' = "done"
                /\ result' = [NoResult EXCEPT !.tag = "InvalidCharacter",
                                              !.byte = v.byte]
    /\ UNCHANGED <<mode, seq1, seq2, scoring, matrix, writes, ii,
                   jj, max_score,
                   max_positions, final_score, starts, stack, all_paths,
                   all_alignments>>

(***************************************************************************)
(* align: self.scoring.scorer.validate(seq2)?                              *)
(***************************************************************************)
Validate2 ==
    /\ pc = "validate2"
    /\ LET v == validate(scoring.scorer, seq2)
       IN  IF v.ok
           THEN /\ pc' = "new_matrix"
                /\ UNCHANGED result
           ELSE /\ pc' = "done"
                /\ result' = [NoResult EXCEPT !.tag = "InvalidCharacter",
                                              !.byte = v.byte]
    /\ UNCHANGED <<mode, seq1, seq2, scoring, matrix, writes, ii,
                   jj, max_score,
                   max_positions, final_score, starts, stack, all_paths,
                   all_alignments>>

(***************************************************************************)
(* initialize_matrix, first statements: DPMatrix::new(n + 1, m + 1), and   *)
(* for GlobalAligner matrix.set(0, 0, Cell::new(0)).                       *)
(***************************************************************************)
NewMatrix ==
    /\ pc = "new_matrix"
    /\ IF mode = "global"
       THEN /\ matrix' = set(DPMatrixNew(n + 1, m + 1), 0, 0, CellNew(0))
            /\ writes' = Written(<<>>, matrix', 0, 0)
            /\ ii' = 1
       ELSE /\ matrix' = DPMatrixNew(n + 1, m + 1)
            /\ writes' = <<>>
            /\ ii' = 0
    /\ jj' = 0
    /\ pc' = "init_col"
    /\ UNCHANGED <<mode, seq1, seq2, scoring, max_score, max_positions,
                   final_score, starts, stack, all_paths, all_alignments,
                   result>>

\* GlobalColCell without its arrow
GlobalColCell_NoArrow(i) == CellNew(gap_penalty(scoring, i))

\* the cell GlobalAligner::initialize_matrix writes at (i, 0)
GlobalColCell(i) == with_arrows(gap_penalty(scoring, i), set_up(NONE))

\* GlobalRowCell with the arrow of the column loop
GlobalRowCell_UpArrow(j) == with_arrows(gap_penalty(scoring, j), set_up(NONE))

\* the cell GlobalAligner::initialize_matrix writes at (0, j)
GlobalRowCell(j) == with_arrows(gap_penalty(scoring, j), set_left(NONE))

(***************************************************************************)
(* initialize_matrix, one iteration of the loop over column 0 (the loop    *)
(* exit moves on to the loop over row 0).                                  *)
(***************************************************************************)
InitCol ==
    /\ pc = "init_col"
    /\ IF ii <= n
       THEN /\ matrix' = set(matrix, ii, 0,
                             IF mode = "global" THEN GlobalColCell(ii)
                                                ELSE CellNew(0))
            /\ writes' = Written(writes, matrix, ii, 0)
            /\ ii' = ii + 1
            /\ UNCHANGED <<jj, pc>>
       ELSE /\ jj' = IF mode = "global" THEN 1 ELSE 0
            /\ pc' = "init_row"
            /\ UNCHANGED <<matrix, writes, ii>>
    /\ UNCHANGED <<mode, seq1, seq2, scoring, max_score, max_positions,
                   final_score, starts, stack, all_paths, all_alignments,
                   result>>

(***************************************************************************)
(* initialize_matrix, one iteration of the loop over row 0 (the loop exit  *)
(* returns the matrix and enters fill_matrix_linear).                      *)
(***************************************************************************)
InitRow ==
    /\ pc = "init_row"
    /\ IF jj <= m
       THEN /\ matrix' = set(matrix, 0, jj,
                             IF mode = "global" THEN GlobalRowCell(jj)
                                                ELSE CellNew(0))
            /\ writes' = Written(writes, matrix, 0, jj)
            /\ jj' = jj + 1
            /\ UNCHANGED <<ii, pc>>
       ELSE /\ ii' = 1
            /\ jj' = 1
            /\ pc' = "fill"
            /\ UNCHANGED <<matrix, writes>>
    /\ UNCHANGED <<mode, seq1, seq2, scoring, max_score, max_positions,
                   final_score, starts, stack, all_paths, all_alignments,
                   result>>

(***************************************************************************)
(* fill_matrix_linear: the cell written for operands diag, up and left.    *)
(***************************************************************************)
\* ArrowsFor that keeps only the first operand equal to the maximum
ArrowsFor_FirstOnly(diag_score, up_score, left_score, cell_score) ==
    IF diag_score = cell_score THEN set_diagonal(NONE)
    ELSE IF up_score = cell_score THEN set_up(NONE)
    ELSE IF left_score = cell_score THEN set_left(NONE)
    ELSE NONE

\* ArrowsFor whose UP test compares the wrong operand
ArrowsFor_UpTestsLeft(diag_score, up_score, left_score, cell_score) ==
    LET a1 == IF diag_score = cell_score THEN set_diagonal(NONE) ELSE NONE
        a2 == IF left_score = cell_score THEN set_up(a1) ELSE a1
    IN  IF left_score = cell_score THEN set_left(a2) ELSE a2

ArrowsFor(diag_score, up_score, left_score, cell_score) ==
    LET a1 == IF diag_score = cell_score THEN set_diagonal(NONE) ELSE NONE
        a2 == IF up_score = cell_score THEN set_up(a1) ELSE a1
    IN  IF left_score = cell_score THEN set_left(a2) ELSE a2

\* the global branch without the left operand in the maximum
GlobalCell_IgnoresLeft(diag_score, up_score, left_score) ==
    LET mx == Max2(diag_score, up_score)
    IN  with_arrows(mx, ArrowsFor(diag_score, up_score, left_score, mx))

\* the global branch with the LEFT test chained to the UP test by else
GlobalCell_LeftAfterElse(diag_score, up_score, left_score) ==
    LET mx == Max2(Max2(diag_score, up_score), left_score)
        a1 == IF diag_score = mx THEN set_diagonal(NONE) ELSE NONE
    IN  with_arrows(mx, IF up_score = mx THEN set_up(a1)
                        ELSE IF left_score = mx THEN set_left(a1)
                        ELSE a1)

\* the global branch
GlobalCell(diag_score, up_score, left_score) ==
    LET mx == Max2(Max2(diag_score, up_score), left_score)
    IN  with_arrows(mx, ArrowsFor(diag_score, up_score, left_score, mx))

\* the local branch without the floor at 0
LocalCell_NoClamp(diag_score, up_score, left_score) ==
    LET cell_score == Max2(Max2(diag_score, up_score), left_score)
    IN  with_arrows(cell_score,
                    IF cell_score > 0
                    THEN ArrowsFor(diag_score, up_score, left_score, cell_score)
                    ELSE NONE)

\* the local branch that also records arrows for a cell of score 0
LocalCell_ArrowsAtZero(diag_score, up_score, left_score) ==
    LET max_candidate == Max2(Max2(diag_score, up_score), left_score)
        cell_score == Max2(max_candidate, 0)
    IN  with_arrows(cell_score,
                    ArrowsFor(diag_score, up_score, left_score, cell_score))

\* the local branch
LocalCell(diag_score, up_score, left_score) ==
    LET max_candidate == Max2(Max2(diag_score, up_score), left_score)
        cell_score == Max2(max_candidate, 0)
    IN  with_arrows(cell_score,
                    IF cell_score > 0
                    THEN ArrowsFor(diag_score, up_score, left_score, cell_score)
                    ELSE NONE)

\* TrackMax that follows the last cell written instead of the maximum
TrackMax_LastCell(ms, mp, i, j, cell_score) ==
    [max_score |-> cell_score,
     max_positions |-> IF cell_score > 0 THEN <<(<<i, j>>)>> ELSE <<>>]

\* TrackMax that records a tie at a maximum of 0
TrackMax_TieAtZero(ms, mp, i, j, cell_score) ==
    IF cell_score > ms
    THEN [max_score |-> cell_score,
          max_positions |-> IF cell_score > 0 THEN <<(<<i, j>>)>> ELSE <<>>]
    ELSE IF cell_score = ms
    THEN [max_score |-> ms, max_positions |-> Append(mp, <<i, j>>)]
    ELSE [max_score |-> ms, max_positions |-> mp]

\* TrackMax that keeps the positions of the earlier maximum
TrackMax_KeepsOld(ms, mp, i, j, cell_score) ==
    IF cell_score > ms
    THEN [max_score |-> cell_score,
          max_positions |-> IF cell_score > 0 THEN Append(mp, <<i, j>>)
                                              ELSE <<>>]
    ELSE IF cell_score = ms /\ cell_score > 0
    THEN [max_score |-> ms, max_positions |-> Append(mp, <<i, j>>)]
    ELSE [max_score |-> ms, max_positions |-> mp]

\* TrackMax that records the position one past the cell
TrackMax_OnePast(ms, mp, i, j, cell_score) ==
    IF cell_score > ms
    THEN [max_score |-> cell_score,
          max_positions |-> IF cell_score > 0 THEN <<(<<i + 1, j + 1>>)>>
                                              ELSE <<>>]
    ELSE IF cell_score = ms /\ cell_score > 0
    THEN [max_score |-> ms, max_positions |-> Append(mp, <<i + 1, j + 1>>)]
    ELSE [max_score |-> ms, max_positions |-> mp]

\* the local branch: max_score and max_positions after cell (i, j)
TrackMax(ms, mp, i, j, cell_score) ==
    IF cell_score > ms
    THEN [max_score |-> cell_score,
          max_positions |-> IF cell_score > 0 THEN <<(<<i, j>>)>> ELSE <<>>]
    ELSE IF cell_score = ms /\ cell_score > 0
    THEN [max_score |-> ms, max_positions |-> Append(mp, <<i, j>>)]
    ELSE [max_score |-> ms, max_positions |-> mp]

\* FillCell with the loops exchanged: the cells of a column, then the next column
FillCell_ColumnMajor ==
    /\ pc = "fill"
    /\ ii <= n
    /\ m >= 1
    /\ LET s == substitution_score(scoring, seq1[ii], seq2[jj])
           gap == scoring.gap_open
           diag_score == saturating_add(get(matrix, ii - 1, jj - 1).score, s.val)
           up_score == saturating_add(get(matrix, ii - 1, jj).score, gap)
           left_score == saturating_add(get(matrix, ii, jj - 1).score, gap)
           cell == IF mode = "local"
                   THEN LocalCell(diag_score, up_score, left_score)
                   ELSE GlobalCell(diag_score, up_score, left_score)
           tm == TrackMax(max_score, max_positions, ii, jj, cell.score)
       IN  IF ~s.ok
           THEN /\ pc' = "done"
                /\ result' = [NoResult EXCEPT !.tag = "InvalidCharacter",
                                              !.byte = s.byte]
                /\ UNCHANGED <<matrix, writes, ii, jj, max_score,
                               max_positions>>
           ELSE /\ matrix' = set(matrix, ii, jj, cell)
                /\ writes' = Written(writes, matrix, ii, jj)
                /\ IF mode = "local"
                   THEN /\ max_score' = tm.max_score
                        /\ max_positions' = tm.max_positions
                   ELSE UNCHANGED <<max_score, max_positions>>
                /\ IF ii < n
                   THEN /\ ii' = ii + 1
                        /\ UNCHANGED jj
                   ELSE IF jj < m
                   THEN /\ ii' = 1
                        /\ jj' = jj + 1
                   ELSE /\ ii' = n + 1
                        /\ jj' = 1
                /\ UNCHANGED <<pc, result>>
    /\ UNCHANGED <<mode, seq1, seq2, scoring, final_score, starts, stack,
                   all_paths, all_alignments>>

(***************************************************************************)
(* fill_matrix_linear: one iteration of the inner loop, cell (ii, jj).     *)
(***************************************************************************)
FillCell ==
    /\ pc = "fill"
    /\ ii <= n
    /\ m >= 1
    /\ LET s == substitution_score(scoring, seq1[ii], seq2[jj])
           gap == scoring.gap_open
           diag_score == saturating_add(get(matrix, ii - 1, jj - 1).score, s.val)
           up_score == saturating_add(get(matrix, ii - 1, jj).score, gap)
           left_score == saturating_add(get(matrix, ii, jj - 1).score, gap)
           cell == IF mode = "local"
                   THEN LocalCell(diag_score, up_score, left_score)
                   ELSE GlobalCell(diag_score, up_score, left_score)
           tm == TrackMax(max_score, max_positions, ii, jj, cell.score)
       IN  IF ~s.ok
           THEN /\ pc' = "done"
                /\ result' = [NoResult EXCEPT !.tag = "InvalidCharacter",
                                              !.byte = s.byte]
                /\ UNCHANGED <<matrix, writes, ii, jj, max_score,
                               max_positions>>
           ELSE /\ matrix' = set(matrix, ii, jj, cell)
                /\ writes' = Written(writes, matrix, ii, jj)
                /\ IF mode = "local"
                   THEN /\ max_score' = tm.max_score
                        /\ max_positions' = tm.max_positions
                   ELSE UNCHANGED <<max_score, max_positions>>
                /\ IF jj < m
                   THEN /\ jj' = jj + 1
                        /\ UNCHANGED ii
                   ELSE /\ jj' = 1
                        /\ ii' = ii + 1
                /\ UNCHANGED <<pc, result>>
    /\ UNCHANGED <<mode, seq1, seq2, scoring, final_score, starts, stack,
                   all_paths, all_alignments>>

(***************************************************************************)
(* fill_matrix_linear returns; align takes final_score and the start       *)
(* positions, and a LocalAligner whose final_score is not positive skips   *)
(* the traceback.                                                          *)
(***************************************************************************)
FillReturn ==
    /\ pc = "fill"
    /\ ii > n \/ m = 0
    /\ IF mode = "global"
       THEN /\ max_score' = get(matrix, n, m).score
            /\ max_positions' = <<>>
            /\ final_score' = get(matrix, n, m).score
            /\ starts' = <<(<<n, m>>)>>
            /\ pc' = "traceback"
       ELSE /\ final_score' = max_score
            /\ UNCHANGED <<max_score, max_positions>>
            /\ IF max_score > 0
               THEN /\ starts' = max_positions
                    /\ pc' = "traceback"
               ELSE /\ starts' = <<>>
                    /\ pc' = "assemble"
    /\ UNCHANGED <<mode, seq1, seq2, scoring, matrix, writes, ii,
                   jj, stack,
                   all_paths, all_alignments, result>>

(***************************************************************************)
(* traceback_all_paths: the next start position enters traceback_recursive *)
(* with an empty path and empty buffers.                                   *)
(***************************************************************************)
Frame(i, j, path, aln1, aln2) ==
    [i |-> i, j |-> j, current_path |-> path,
     current_aln1 |-> aln1, current_aln2 |-> aln2]

TracebackStart ==
    /\ pc = "traceback"
    /\ stack = <<>>
    /\ starts # <<>>
    /\ stack' = <<Frame(Head(starts)[1], Head(starts)[2], <<>>, <<>>, <<>>)>>
    /\ starts' = Tail(starts)
    /\ UNCHANGED <<mode, seq1, seq2, scoring, pc, matrix, writes, ii,
                   jj, max_score,
                   max_positions, final_score, all_paths, all_alignments,
                   result>>

\* stop_condition of a GlobalAligner that stops on the border
stop_condition_AtBorder(i, j, cell) ==
    IF mode = "global" THEN i = 0 \/ j = 0
                       ELSE cell.score = 0 \/ (i = 0 /\ j = 0)

\* the stop_condition closure each aligner passes
stop_condition(i, j, cell) ==
    IF mode = "global" THEN i = 0 /\ j = 0
                       ELSE cell.score = 0 \/ (i = 0 /\ j = 0)

\* the stop_on_no_arrows flag each aligner passes
stop_on_no_arrows == mode = "local"

\* AlignedPair::new over the buffers as accumulated, not reversed
AlignedPair_NotReversed(aln1, aln2) ==
    [seq1_aligned |-> from_utf8_lossy(aln1),
     seq2_aligned |-> from_utf8_lossy(aln2)]

\* AlignedPair::new over the reversed buffers
AlignedPair(aln1, aln2) ==
    [seq1_aligned |-> from_utf8_lossy(Reverse(aln1)),
     seq2_aligned |-> from_utf8_lossy(Reverse(aln2))]

\* Children whose left move pushes no gap marker for sequence 1
Children_LeftDropsGap(f, path, arrows) ==
    (IF has_diagonal(arrows) /\ f.i > 0 /\ f.j > 0
     THEN <<Frame(f.i - 1, f.j - 1, path,
                  Append(f.current_aln1, seq1[f.i]),
                  Append(f.current_aln2, seq2[f.j]))>>
     ELSE <<>>)
    \o
    (IF has_up(arrows) /\ f.i > 0
     THEN <<Frame(f.i - 1, f.j, path,
                  Append(f.current_aln1, seq1[f.i]),
                  Append(f.current_aln2, GAP))>>
     ELSE <<>>)
    \o
    (IF has_left(arrows) /\ f.j > 0
     THEN <<Frame(f.i, f.j - 1, path,
                  f.current_aln1,
                  Append(f.current_aln2, seq2[f.j]))>>
     ELSE <<>>)

\* Children whose up move puts the gap marker on the side of sequence 1
Children_UpGapOnSeq1(f, path, arrows) ==
    (IF has_diagonal(arrows) /\ f.i > 0 /\ f.j > 0
     THEN <<Frame(f.i - 1, f.j - 1, path,
                  Append(f.current_aln1, seq1[f.i]),
                  Append(f.current_aln2, seq2[f.j]))>>
     ELSE <<>>)
    \o
    (IF has_up(arrows) /\ f.i > 0
     THEN <<Frame(f.i - 1, f.j, path,
                  Append(f.current_aln1, GAP),
                  Append(f.current_aln2, seq1[f.i]))>>
     ELSE <<>>)
    \o
    (IF has_left(arrows) /\ f.j > 0
     THEN <<Frame(f.i, f.j - 1, path,
                  Append(f.current_aln1, GAP),
                  Append(f.current_aln2, seq2[f.j]))>>
     ELSE <<>>)

\* Children that follows only the first arrow of the cell
Children_FirstArrowOnly(f, path, arrows) ==
    IF has_diagonal(arrows) /\ f.i > 0 /\ f.j > 0
    THEN <<Frame(f.i - 1, f.j - 1, path,
                 Append(f.current_aln1, seq1[f.i]),
                 Append(f.current_aln2, seq2[f.j]))>>
    ELSE IF has_up(arrows) /\ f.i > 0
    THEN <<Frame(f.i - 1, f.j, path,
                 Append(f.current_aln1, seq1[f.i]),
                 Append(f.current_aln2, GAP))>>
    ELSE IF has_left(arrows) /\ f.j > 0
    THEN <<Frame(f.i, f.j - 1, path,
                 Append(f.current_aln1, GAP),
                 Append(f.current_aln2, seq2[f.j]))>>
    ELSE <<>>

\* the recursive calls one call makes, in call order
Children(f, path, arrows) ==
    (IF has_diagonal(arrows) /\ f.i > 0 /\ f.j > 0
     THEN <<Frame(f.i - 1, f.j - 1, path,
                  Append(f.current_aln1, seq1[f.i]),
                  Append(f.current_aln2, seq2[f.j]))>>
     ELSE <<>>)
    \o
    (IF has_up(arrows) /\ f.i > 0
     THEN <<Frame(f.i - 1, f.j, path,
                  Append(f.current_aln1, seq1[f.i]),
                  Append(f.current_aln2, GAP))>>
     ELSE <<>>)
    \o
    (IF has_left(arrows) /\ f.j > 0
     THEN <<Frame(f.i, f.j - 1, path,
                  Append(f.current_aln1, GAP),
                  Append(f.current_aln2, seq2[f.j]))>>
     ELSE <<>>)

(***************************************************************************)
(* traceback_recursive: one call, up to its return or its recursive calls. *)
(***************************************************************************)
TracebackRecursive ==
    /\ pc = "traceback"
    /\ stack # <<>>
    /\ LET f == Head(stack)
           path == Append(f.current_path, <<f.i, f.j>>)
           cell == get(matrix, f.i, f.j)
       IN  IF stop_condition(f.i, f.j, cell)
              \/ (stop_on_no_arrows /\ cell.arrows = 0)
           THEN /\ all_paths' = Append(all_paths, path)
                /\ all_alignments' =
                       Append(all_alignments,
                              AlignedPair(f.current_aln1, f.current_aln2))
                /\ stack' = Tail(stack)
           ELSE /\ stack' = Children(f, path, cell.arrows) \o Tail(stack)
                /\ UNCHANGED <<all_paths, all_alignments>>
    /\ UNCHANGED <<mode, seq1, seq2, scoring, pc, matrix, writes, ii,
                   jj, max_score,
                   max_positions, final_score, starts, result>>

(***************************************************************************)
(* align returns Ok(AlignmentResult { .. }).                               *)
(***************************************************************************)
AlignReturn ==
    /\ \/ pc = "assemble"
       \/ pc = "traceback" /\ stack = <<>> /\ starts = <<>>
    /\ pc' = "done"
    /\ result' = [NoResult EXCEPT !.tag = "Ok",
                                  !.seq1 = from_utf8_lossy(seq1),
                                  !.seq2 = from_utf8_lossy(seq2),
                                  !.traceback_paths = all_paths,
                                  !.alignments = all_alignments,
                                  !.final_score = final_score]
    /\ UNCHANGED <<mode, seq1, seq2, scoring, matrix, writes, ii,
                   jj, max_score,
                   max_positions, final_score, starts, stack, all_paths,
                   all_alignments>>

Next ==
    \/ EnsureLinear
    \/ Validate1
    \/ Validate2
    \/ NewMatrix
    \/ InitCol
    \/ InitRow
    \/ FillCell
    \/ FillReturn
    \/ TracebackStart
    \/ TracebackRecursive
    \/ AlignReturn

Spec == Init /\ [][Next]_vars

(***************************************************************************)
(* The calls of the PAM1 forbidden-pair test: two sequences of length 2    *)
(* over the residues A and W, the matrix scorer, and a linear gap penalty  *)
(* anywhere in i32.                                                        *)
(***************************************************************************)
InitForbidden ==
    /\ mode \in Modes
    /\ seq1 \in [1..2 -> {65, 87}]
    /\ seq2 \in [1..2 -> {65, 87}]
    /\ scoring \in {[scorer |-> Matrix(Pam1), gap_open |-> g, gap_extend |-> g] :
                       g \in ExtremeGapScores}
    /\ pc = "ensure_linear"
    /\ matrix = NoMatrix
    /\ writes = <<>>
    /\ ii = 0
    /\ jj = 0
    /\ max_score = 0
    /\ max_positions = <<>>
    /\ final_score = 0
    /\ starts = <<>>
    /\ stack = <<>>
    /\ all_paths = <<>>
    /\ all_alignments = <<>>
    /\ result = NoResult

SpecForbidden == InitForbidden /\ [][Next]_vars

(***************************************************************************)
(* Calls on two sequences of one byte each, any byte of ScoreBytes (the    *)
(* aligners take any &[u8]): every pair of bytes goes through              *)
(* SubstitutionScorer::validate and SubstitutionScorer::score.             *)
(***************************************************************************)
InitScore ==
    /\ mode \in Modes
    /\ seq1 \in {<<b>> : b \in ScoreBytes}
    /\ seq2 \in {<<b>> : b \in ScoreBytes}
    /\ scoring \in ScoringConfigs
    /\ pc = "ensure_linear"
    /\ matrix = NoMatrix
    /\ writes = <<>>
    /\ ii = 0
    /\ jj = 0
    /\ max_score = 0
    /\ max_positions = <<>>
    /\ final_score = 0
    /\ starts = <<>>
    /\ stack = <<>>
    /\ all_paths = <<>>
    /\ all_alignments = <<>>
    /\ result = NoResult

SpecScore == InitScore /\ [][Next]_vars

(***************************************************************************)
(* Reference notions the properties are stated against.  An alignment of x *)
(* against y is a sequence of columns <<a, b>> where a is a byte of x or   *)
(* NoResidue and b is a byte of y or NoResidue, never both NoResidue, that *)
(* spells x on the left and y on the right.                                *)
(***************************************************************************)
NoResidue == 0 - 1

Front(s) == SubSeq(s, 1, Len(s) - 1)
Last(s) == s[Len(s)]

RECURSIVE Alignments(_, _)
Alignments(x, y) ==
    IF x = <<>> /\ y = <<>> THEN {<<>>}
    ELSE (IF x # <<>> /\ y # <<>>
          THEN {Append(a, <<Last(x), Last(y)>>) :
                    a \in Alignments(Front(x), Front(y))}
          ELSE {})
         \cup
         (IF x # <<>>
          THEN {Append(a, <<Last(x), NoResidue>>) : a \in Alignments(Front(x), y)}
          ELSE {})
         \cup
         (IF y # <<>>
          THEN {Append(a, <<NoResidue, Last(y)>>) : a \in Alignments(x, Front(y))}
          ELSE {})

ColumnScore(col) ==
    IF col[1] = NoResidue \/ col[2] = NoResidue
    THEN scoring.gap_open
    ELSE substitution_score(scoring, col[1], col[2]).val

RECURSIVE AlignmentScore(_)
AlignmentScore(a) ==
    IF a = <<>> THEN 0
    ELSE saturating_add(AlignmentScore(Front(a)), ColumnScore(Last(a)))

SetMax(S) == CHOOSE v \in S : \A w \in S : w <= v

OptimalScore(x, y) == SetMax({AlignmentScore(a) : a \in Alignments(x, y)})

OptimalAlignments(x, y) ==
    LET best == OptimalScore(x, y)
    IN  {a \in Alignments(x, y) : AlignmentScore(a) = best}

\* the two strings an alignment is written as
Rendering(a) ==
    [seq1_aligned |->
        from_utf8_lossy([k \in 1..Len(a) |->
                            IF a[k][1] = NoResidue THEN GAP ELSE a[k][1]]),
     seq2_aligned |->
        from_utf8_lossy([k \in 1..Len(a) |->
                            IF a[k][2] = NoResidue THEN GAP ELSE a[k][2]])]

\* how many of the alignments in opt are written as each pair of strings
BagOfRenderings(opt) ==
    LET rs == [a \in opt |-> Rendering(a)]
        img == {rs[a] : a \in opt}
    IN  [r \in img |-> Cardinality({a \in opt : rs[a] = r})]

Substrings(x) ==
    {SubSeq(x, a, b) : a \in 1..(Len(x) + 1), b \in 0..Len(x)}

BestSubstringScore ==
    SetMax({OptimalScore(x, y) : x \in Substrings(seq1), y \in Substrings(seq2)})

MatrixMax ==
    SetMax({matrix.cells[k].score : k \in DOMAIN matrix.cells})

RemoveGaps(str) == SelectSeq(str, LAMBDA b : b # GAP)

Returned == pc = "done" /\ result.tag = "Ok"

Linear == scoring.gap_open = scoring.gap_extend

Ascii(str) == \A k \in DOMAIN str : str[k] < 128

\* ASCII bytes, none of them the gap marker
PlainResidues(str) == \A k \in DOMAIN str : str[k] < 128 /\ str[k] # GAP

Occurrences(list, x) == Cardinality({k \in DOMAIN list : list[k] = x})

(***************************************************************************)
(* C1: with a linear configuration, GlobalAligner::align returns           *)
(* final_score = cell(n,m).score, the maximum over all global alignments   *)
(* of seq1 against seq2 of the sum of the substitution scores of the       *)
(* residue/residue columns plus gap_open for each gap column.              *)
(***************************************************************************)
C1_GlobalScoreOptimal ==
    (Returned /\ mode = "global" /\ Linear) =>
        /\ result.final_score = get(matrix, n, m).score
        /\ result.final_score = OptimalScore(seq1, seq2)

C1_Witness ==
    /\ Returned /\ mode = "global"
    /\ n = 2 /\ m = 2 /\ seq1 # seq2
    /\ result.final_score = OptimalScore(seq1, seq2)
    /\ \E a \in OptimalAlignments(seq1, seq2) :
           \E k, l \in DOMAIN a : a[k][2] = NoResidue /\ a[l][1] = a[l][2]

(***************************************************************************)
(* C2: GlobalAligner::align returns every optimal global alignment of seq1 *)
(* against seq2, each exactly once, and nothing else: the list alignments  *)
(* holds the rendering of each optimal alignment as many times as there    *)
(* are optimal alignments with that rendering, and has no other entry.     *)
(***************************************************************************)
C2_AllOptimalReturnedOnce ==
    (Returned /\ mode = "global") =>
        LET bag == BagOfRenderings(OptimalAlignments(seq1, seq2))
        IN  /\ \A k \in DOMAIN result.alignments :
                   result.alignments[k] \in DOMAIN bag
            /\ \A r \in DOMAIN bag : Occurrences(result.alignments, r) = bag[r]

C2_Witness ==
    /\ Returned /\ mode = "global"
    /\ Len(result.alignments) >= 3
    /\ Len(result.alignments) = Cardinality(OptimalAlignments(seq1, seq2))
    /\ Cardinality(Alignments(seq1, seq2)) > Len(result.alignments)

\* the score of a returned pair of strings, read column by column
PairColumnScore(a, b) ==
    IF a = GAP \/ b = GAP
    THEN scoring.gap_open
    ELSE substitution_score(scoring, a, b).val

RECURSIVE PairScoreUpTo(_, _)
PairScoreUpTo(pair, k) ==
    IF k = 0 THEN 0
    ELSE PairScoreUpTo(pair, k - 1)
         + PairColumnScore(pair.seq1_aligned[k], pair.seq2_aligned[k])

PairScoresTo(pair, total) ==
    /\ Len(pair.seq1_aligned) = Len(pair.seq2_aligned)
    /\ PairScoreUpTo(pair, Len(pair.seq1_aligned)) = total

(***************************************************************************)
(* C3 as stated: every AlignedPair returned in either mode scores exactly  *)
(* final_score when its columns are scored (substitution score for a       *)
(* residue/residue column, gap_open for a column holding a gap marker).    *)
(***************************************************************************)
C3_ReturnedPairsScoreFinal ==
    (Returned /\ Linear) =>
        \A k \in DOMAIN result.alignments :
            PairScoresTo(result.alignments[k], result.final_score)

(***************************************************************************)
(* C3 amended: the same, for sequences of ASCII bytes none of which is the *)
(* gap marker '-'.                                                         *)
(***************************************************************************)
C3_ReturnedPairsScoreFinal_PlainResidues ==
    (Returned /\ Linear /\ PlainResidues(seq1) /\ PlainResidues(seq2)) =>
        \A k \in DOMAIN result.alignments :
            PairScoresTo(result.alignments[k], result.final_score)

C3_Witness ==
    /\ Returned /\ PlainResidues(seq1) /\ PlainResidues(seq2)
    /\ n = 2 /\ m = 1
    /\ Len(result.alignments) >= 2
    /\ \E k \in DOMAIN result.alignments :
           /\ \E c \in DOMAIN result.alignments[k].seq2_aligned :
                  result.alignments[k].seq2_aligned[c] = GAP
           /\ PairScoresTo(result.alignments[k], result.final_score)

(***************************************************************************)
(* C4 as stated: LocalAligner::align returns final_score equal to the      *)
(* matrix-wide maximum cell score, which equals max(0, B), B the best      *)
(* global-alignment score over all pairs of contiguous substrings.         *)
(***************************************************************************)
C4_LocalScoreIsBestSubstring ==
    (Returned /\ mode = "local") =>
        /\ result.final_score = MatrixMax
        /\ result.final_score = Max2(0, BestSubstringScore)

(***************************************************************************)
(* C4 amended: the same, for configurations whose gap_open is not          *)
(* positive.                                                               *)
(***************************************************************************)
C4_LocalScoreIsBestSubstring_GapNotPositive ==
    (Returned /\ mode = "local" /\ scoring.gap_open <= 0) =>
        /\ result.final_score = MatrixMax
        /\ result.final_score = Max2(0, BestSubstringScore)

C4_Witness ==
    /\ Returned /\ mode = "local" /\ scoring.gap_open <= 0
    /\ n = 2 /\ m = 2
    /\ scoring.scorer.kind = "Simple"
    /\ result.final_score = scoring.scorer.match_score
    /\ result.final_score = BestSubstringScore
    /\ OptimalScore(seq1, seq2) < result.final_score

(***************************************************************************)
(* C5 as stated: for every AlignedPair returned in either mode, removing   *)
(* the gap markers from seq1_aligned gives seq1 and removing them from     *)
(* seq2_aligned gives seq2.                                                *)
(***************************************************************************)
C5_RoundTrip ==
    Returned =>
        \A k \in DOMAIN result.alignments :
            /\ RemoveGaps(result.alignments[k].seq1_aligned) = seq1
            /\ RemoveGaps(result.alignments[k].seq2_aligned) = seq2

(***************************************************************************)
(* C5 amended: for sequences of ASCII bytes none of which is '-', removing *)
(* the gap markers from the two strings of an AlignedPair gives seq1 and   *)
(* seq2 when GlobalAligner returned it, and a contiguous substring of seq1 *)
(* and of seq2 when LocalAligner returned it.                              *)
(***************************************************************************)
C5_RoundTrip_GlobalPlainResidues ==
    (Returned /\ PlainResidues(seq1) /\ PlainResidues(seq2)) =>
        \A k \in DOMAIN result.alignments :
            LET r1 == RemoveGaps(result.alignments[k].seq1_aligned)
                r2 == RemoveGaps(result.alignments[k].seq2_aligned)
            IN  IF mode = "global"
                THEN r1 = seq1 /\ r2 = seq2
                ELSE r1 \in Substrings(seq1) /\ r2 \in Substrings(seq2)

C5_Witness ==
    /\ Returned /\ mode = "global"
    /\ PlainResidues(seq1) /\ PlainResidues(seq2)
    /\ n = 2 /\ m = 2 /\ seq1[1] # seq1[2]
    /\ \E k \in DOMAIN result.alignments :
           /\ Len(result.alignments[k].seq1_aligned) = 3
           /\ RemoveGaps(result.alignments[k].seq1_aligned) = seq1
           /\ RemoveGaps(result.alignments[k].seq2_aligned) = seq2

(***************************************************************************)
(* C6 as stated: for every AlignedPair returned in either mode,            *)
(* seq1_aligned and seq2_aligned have the same length.                     *)
(***************************************************************************)
C6_EqualLength ==
    Returned =>
        \A k \in DOMAIN result.alignments :
            Len(result.alignments[k].seq1_aligned)
                = Len(result.alignments[k].seq2_aligned)

(***************************************************************************)
(* C6 amended: the same, for sequences of ASCII bytes.                     *)
(***************************************************************************)
C6_EqualLength_Ascii ==
    (Returned /\ Ascii(seq1) /\ Ascii(seq2)) =>
        \A k \in DOMAIN result.alignments :
            Len(result.alignments[k].seq1_aligned)
                = Len(result.alignments[k].seq2_aligned)

C6_Witness ==
    /\ Returned /\ Ascii(seq1) /\ Ascii(seq2)
    /\ n = 2 /\ m = 1
    /\ \E k \in DOMAIN result.alignments :
           /\ Len(result.alignments[k].seq1_aligned) = 2
           /\ Len(result.alignments[k].seq2_aligned) = 2

IdenticalResult ==
    /\ result.final_score = n * scoring.scorer.match_score
    /\ result.alignments
           = <<[seq1_aligned |-> seq1, seq2_aligned |-> seq1]>>

(***************************************************************************)
(* C7 as stated: for every sequence s of length L and every linear         *)
(* configuration with match score M, GlobalAligner::align(s, s) returns    *)
(* final_score = L * M and exactly one alignment, both strings equal to s. *)
(***************************************************************************)
C7_IdenticalSequences ==
    (/\ Returned /\ mode = "global" /\ seq1 = seq2
     /\ scoring.scorer.kind = "Simple") => IdenticalResult

(***************************************************************************)
(* C7 amended: the same, for configurations with                           *)
(* mismatch_score <= match_score and 2 * gap_open < match_score.           *)
(***************************************************************************)
C7_IdenticalSequences_MatchDominates ==
    (/\ Returned /\ mode = "global" /\ seq1 = seq2
     /\ scoring.scorer.kind = "Simple"
     /\ scoring.scorer.mismatch_score <= scoring.scorer.match_score
     /\ 2 * scoring.gap_open < scoring.scorer.match_score) => IdenticalResult

C7_Witness ==
    /\ Returned /\ mode = "global" /\ seq1 = seq2 /\ n = 2
    /\ seq1[1] # seq1[2]
    /\ scoring.scorer.kind = "Simple"
    /\ 2 * scoring.gap_open < scoring.scorer.match_score
    /\ scoring.scorer.mismatch_score <= scoring.scorer.match_score
    /\ IdenticalResult

Gaps(len) == [k \in 1..len |-> GAP]

(***************************************************************************)
(* C8: in global mode, a sequence s of length L against the empty sequence *)
(* (either order) gives final_score = L * gap_open, and every returned     *)
(* alignment is L gap markers on the empty side and s on the other side.   *)
(***************************************************************************)
C8_AgainstEmpty ==
    /\ (Returned /\ mode = "global" /\ m = 0) =>
           /\ result.final_score = n * scoring.gap_open
           /\ \A k \in DOMAIN result.alignments :
                  result.alignments[k]
                      = [seq1_aligned |-> seq1, seq2_aligned |-> Gaps(n)]
    /\ (Returned /\ mode = "global" /\ n = 0) =>
           /\ result.final_score = m * scoring.gap_open
           /\ \A k \in DOMAIN result.alignments :
                  result.alignments[k]
                      = [seq1_aligned |-> Gaps(m), seq2_aligned |-> seq2]

C8_Witness ==
    /\ Returned /\ mode = "global" /\ m = 0 /\ n = 2
    /\ result.final_score = 2 * scoring.gap_open
    /\ Len(result.alignments) = 1
    /\ result.alignments[1].seq2_aligned = <<GAP, GAP>>

(***************************************************************************)
(* C9: in local mode with a linear configuration, no cell of the completed *)
(* matrix has a negative score and row 0 and column 0 are all zero.        *)
(***************************************************************************)
C9_LocalNonNegative ==
    (Returned /\ mode = "local") =>
        /\ \A i \in 0..n : \A j \in 0..m : get(matrix, i, j).score >= 0
        /\ \A i \in 0..n : get(matrix, i, 0).score = 0
        /\ \A j \in 0..m : get(matrix, 0, j).score = 0

C9_Witness ==
    /\ Returned /\ mode = "local" /\ n = 2 /\ m = 2
    /\ scoring.scorer.kind = "Simple"
    /\ scoring.scorer.mismatch_score < 0 /\ scoring.gap_open < 0
    /\ get(matrix, 1, 1).score > 0
    /\ get(matrix, 2, 2).score = 0

Filled == pc \in {"traceback", "assemble", "done"} /\ matrix.rows = n + 1

NoPositiveCell == \A k \in DOMAIN matrix.cells : matrix.cells[k].score <= 0

(***************************************************************************)
(* C10: in local mode, when no cell of the completed matrix is positive,   *)
(* align returns Ok with final_score 0, an empty start-position set, no    *)
(* alignment and no traceback path, and the traceback is never entered.    *)
(***************************************************************************)
C10_LocalNoSimilarity ==
    (mode = "local" /\ Filled /\ NoPositiveCell) =>
        /\ pc # "traceback"
        /\ final_score = 0
        /\ max_positions = <<>>
        /\ starts = <<>>
        /\ stack = <<>>
        /\ all_paths = <<>>
        /\ all_alignments = <<>>
        /\ pc = "done" =>
               /\ result.tag = "Ok"
               /\ result.final_score = 0
               /\ result.alignments = <<>>
               /\ result.traceback_paths = <<>>

C10_Witness ==
    /\ Returned /\ mode = "local" /\ n = 2 /\ m = 2
    /\ NoPositiveCell
    /\ result.final_score = 0
    /\ result.alignments = <<>>

\* a residue pair whose substitution score is the forbidden sentinel
Forbidden(a, b) ==
    LET s == substitution_score(scoring, a, b)
    IN  s.ok /\ s.val = I32_MIN

(***************************************************************************)
(* C11: in global mode, for sequences of length 2 and every linear gap     *)
(* penalty, the cell of a residue pair whose substitution score is the     *)
(* forbidden sentinel never gets the DIAGONAL arrow, and no returned       *)
(* alignment has a column pairing two such residues directly.              *)
(***************************************************************************)
C11_ForbiddenNeverChosen ==
    (Returned /\ mode = "global" /\ n = 2 /\ m = 2) =>
        /\ \A i \in 1..n : \A j \in 1..m :
               Forbidden(seq1[i], seq2[j])
                   => ~has_diagonal(get(matrix, i, j).arrows)
        /\ \A k \in DOMAIN result.alignments :
               LET pair == result.alignments[k]
               IN  \A c \in DOMAIN pair.seq1_aligned :
                       ~Forbidden(pair.seq1_aligned[c], pair.seq2_aligned[c])

\* the error value of a rejected gap configuration
ConfigurationError ==
    [NoResult EXCEPT !.tag = "Other",
                     !.gap_open = scoring.gap_open,
                     !.gap_extend = scoring.gap_extend]

(***************************************************************************)
(* C12: align in either mode accepts a call only when gap_open equals      *)
(* gap_extend; otherwise it returns the configuration error naming both    *)
(* values, without validating a sequence and without allocating a matrix,  *)
(* so the error takes precedence over InvalidCharacter and nothing partial *)
(* is produced.                                                            *)
(***************************************************************************)
C12_AffineRejectedFirst ==
    /\ scoring.gap_open # scoring.gap_extend =>
           /\ pc \in {"ensure_linear", "done"}
           /\ matrix = NoMatrix
           /\ all_paths = <<>> /\ all_alignments = <<>>
           /\ pc = "done" => result = ConfigurationError
    /\ (scoring.gap_open = scoring.gap_extend /\ pc = "done") =>
           result.tag # "Other"

C12_Witness ==
    /\ pc = "done"
    /\ scoring.gap_open # scoring.gap_extend
    /\ scoring.scorer.kind = "Matrix"
    /\ n = 2 /\ seq1[1] = GAP
    /\ result = ConfigurationError

\* membership of a byte in the alphabet of a matrix, letters in either case
InAlphabet(bm, c) ==
    \E k \in DOMAIN bm.alphabet :
        \/ c = bm.alphabet[k]
        \/ c >= 97 /\ c <= 122 /\ c - 32 = bm.alphabet[k]

RECURSIVE FirstInvalid(_, _)
FirstInvalid(bm, seq) ==
    IF seq = <<>> THEN NoResidue
    ELSE IF ~InAlphabet(bm, Head(seq)) THEN Head(seq)
    ELSE FirstInvalid(bm, Tail(seq))

\* the byte the call must name, NoResidue when both sequences are valid
OffendingByte ==
    IF FirstInvalid(scoring.scorer.bm, seq1) # NoResidue
    THEN FirstInvalid(scoring.scorer.bm, seq1)
    ELSE FirstInvalid(scoring.scorer.bm, seq2)

(***************************************************************************)
(* C13: with a Matrix scorer and a linear gap configuration, a call on a   *)
(* sequence holding a byte absent from the matrix alphabet returns         *)
(* InvalidCharacter(c), c the first invalid byte of seq1 or, when seq1 is  *)
(* valid, the first invalid byte of seq2; no matrix is built and nothing   *)
(* partial is returned.                                                    *)
(***************************************************************************)
C13_InvalidCharacterFirst ==
    (scoring.scorer.kind = "Matrix" /\ Linear /\ OffendingByte # NoResidue) =>
        /\ matrix = NoMatrix
        /\ all_paths = <<>> /\ all_alignments = <<>>
        /\ pc \in {"ensure_linear", "validate1", "validate2", "done"}
        /\ pc = "done" =>
               result = [NoResult EXCEPT !.tag = "InvalidCharacter",
                                         !.byte = OffendingByte]

C13_Witness ==
    /\ pc = "done" /\ scoring.scorer.kind = "Matrix" /\ Linear
    /\ n = 2 /\ m = 2
    /\ FirstInvalid(scoring.scorer.bm, seq1) = NoResidue
    /\ seq2[1] # seq2[2]
    /\ result.tag = "InvalidCharacter"
    /\ result.byte = seq2[1]

\* the cells at which a traceback branch closes
StopCell(i, j) ==
    LET cell == get(matrix, i, j)
    IN  IF mode = "global" THEN i = 0 /\ j = 0
        ELSE cell.score = 0 \/ (i = 0 /\ j = 0) \/ cell.arrows = NONE

\* every arrow-following path from cell (i, j) to a stop cell
RECURSIVE ArrowPaths(_, _)
ArrowPaths(i, j) ==
    IF StopCell(i, j) THEN {<<(<<i, j>>)>>}
    ELSE LET arrows == get(matrix, i, j).arrows
         IN  (IF arrows \in {1, 3, 5, 7} /\ i > 0 /\ j > 0
              THEN {<<(<<i, j>>)>> \o p : p \in ArrowPaths(i - 1, j - 1)}
              ELSE {})
             \cup
             (IF arrows \in {2, 3, 6, 7} /\ i > 0
              THEN {<<(<<i, j>>)>> \o p : p \in ArrowPaths(i - 1, j)}
              ELSE {})
             \cup
             (IF arrows \in {4, 5, 6, 7} /\ j > 0
              THEN {<<(<<i, j>>)>> \o p : p \in ArrowPaths(i, j - 1)}
              ELSE {})

\* the start coordinates align hands to traceback_all_paths
StartCoordinates ==
    IF mode = "global" THEN {<<n, m>>}
    ELSE {max_positions[k] : k \in DOMAIN max_positions}

PathsFromStarts == UNION {ArrowPaths(c[1], c[2]) : c \in StartCoordinates}

\* traceback_all_paths was called and has returned
TracedBack ==
    /\ Returned
    /\ mode = "local" => final_score > 0

(***************************************************************************)
(* C14: traceback_all_paths returns exactly one (path, AlignedPair) for    *)
(* each distinct arrow-following path from a start coordinate to a stop    *)
(* cell of the completed matrix: every such path is returned, none twice,  *)
(* and there are as many alignments as paths.                              *)
(***************************************************************************)
C14_OnePairPerArrowPath ==
    TracedBack =>
        /\ {all_paths[k] : k \in DOMAIN all_paths} = PathsFromStarts
        /\ \A k, l \in DOMAIN all_paths : all_paths[k] = all_paths[l] => k = l
        /\ Len(all_paths) = Cardinality(PathsFromStarts)
        /\ Len(all_alignments) = Len(all_paths)
        /\ result.traceback_paths = all_paths
        /\ result.alignments = all_alignments

C14_Witness ==
    /\ TracedBack /\ mode = "global" /\ n = 2 /\ m = 2
    /\ get(matrix, 2, 2).arrows \in {1, 2, 4}
    /\ get(matrix, 1, 1).arrows = 7
    /\ Len(all_paths) >= 3
    /\ Len(all_paths) = Cardinality(PathsFromStarts)

\* equality of two bytes ignoring ASCII case
EqualIgnoringAsciiCase(a, b) ==
    \/ a = b
    \/ a >= 65 /\ a <= 90 /\ b = a + 32
    \/ b >= 65 /\ b <= 90 /\ a = b + 32

(***************************************************************************)
(* C15: for the Simple scorer and every pair of bytes a, b, score(a, b) is *)
(* match_score when a and b are equal ignoring ASCII case and              *)
(* mismatch_score otherwise; score never returns an error and validate     *)
(* returns Ok for every byte sequence.                                     *)
(***************************************************************************)
C15_SimpleScore ==
    scoring.scorer.kind = "Simple" =>
        /\ \A k \in DOMAIN seq1 : \A l \in DOMAIN seq2 :
               LET s == score(scoring.scorer, seq1[k], seq2[l])
               IN  /\ s.ok
                   /\ s.val = IF EqualIgnoringAsciiCase(seq1[k], seq2[l])
                              THEN scoring.scorer.match_score
                              ELSE scoring.scorer.mismatch_score
        /\ validate(scoring.scorer, seq1).ok
        /\ validate(scoring.scorer, seq2).ok
        /\ pc = "done" => result.tag # "InvalidCharacter"

C15_Witness ==
    /\ Returned /\ mode = "local" /\ scoring.scorer.kind = "Simple"
    /\ scoring.gap_open < 0
    /\ n = 1 /\ m = 1 /\ seq1[1] = seq2[1] + 32
    /\ get(matrix, 1, 1).score = scoring.scorer.match_score
    /\ get(matrix, 1, 1).score # scoring.scorer.mismatch_score

\* how many times DPMatrix::set was called on cell (i, j)
WriteCount(i, j) == Cardinality({t \in DOMAIN writes : writes[t] = <<i, j>>})

(***************************************************************************)
(* C16: after a successful align on sequences of length n and m, in either *)
(* mode, the matrix has n+1 rows and m+1 columns and rows * cols cells in  *)
(* row-major order (cell (i,j) at index i*cols+j, 0-based), the exported   *)
(* scores and arrows arrays have rows * cols entries in that order, and    *)
(* every cell has been assigned by initialization or fill, none being left *)
(* in the default state.  The order is read off the border cells, whose    *)
(* contents tell the row from the column, and off the cell of final_score. *)
(***************************************************************************)
C16_MatrixShape ==
    Returned =>
        LET out == DPMatrixOutput(matrix)
        IN  /\ out.rows = n + 1 /\ out.cols = m + 1
            /\ Len(matrix.cells) = (n + 1) * (m + 1)
            /\ Len(out.scores) = (n + 1) * (m + 1)
            /\ Len(out.arrows) = (n + 1) * (m + 1)
            /\ \A i \in 0..n : \A j \in 0..m :
                   LET k == i * (m + 1) + j + 1
                   IN  /\ WriteCount(i, j) >= 1
                       /\ matrix.cells[k] # CellDefault
                       /\ out.scores[k] = matrix.cells[k].score
                       /\ out.arrows[k] = matrix.cells[k].arrows
                       /\ (mode = "global" /\ j = 0 /\ i >= 1) =>
                              /\ out.scores[k] = i * scoring.gap_open
                              /\ out.arrows[k] = UP
                       /\ (mode = "global" /\ i = 0 /\ j >= 1) =>
                              /\ out.scores[k] = j * scoring.gap_open
                              /\ out.arrows[k] = LEFT
                       /\ (mode = "global" /\ i = n /\ j = m) =>
                              out.scores[k] = result.final_score
                       /\ (mode = "local" /\ (i = 0 \/ j = 0)) =>
                              /\ out.scores[k] = 0
                              /\ out.arrows[k] = NONE
                       /\ (mode = "local" /\ Len(all_paths) >= 1
                              /\ <<i, j>> = all_paths[1][1]) =>
                              out.scores[k] = result.final_score

C16_Witness ==
    /\ Returned /\ mode = "global" /\ n = 2 /\ m = 1
    /\ Len(DPMatrixOutput(matrix).scores) = 6
    /\ DPMatrixOutput(matrix).arrows[3] = UP
    /\ DPMatrixOutput(matrix).arrows[2] = LEFT
    /\ \A i \in 0..2 : \A j \in 0..1 : WriteCount(i, j) >= 1

\* initialize_matrix has just returned, or align has
Initialized == (pc = "fill" /\ ii = 1 /\ jj = 1) \/ pc = "done"

(***************************************************************************)
(* C17: global initialization sets cell(0,0) to score 0 with no arrows,    *)
(* cell(i,0) for 1 <= i <= n to gap_penalty(i) with only the UP arrow and  *)
(* cell(0,j) for 1 <= j <= m to gap_penalty(j) with only the LEFT arrow,   *)
(* where gap_penalty(L) = gap_open * L and gap_penalty(0) = 0.             *)
(***************************************************************************)
C17_GlobalInitialization ==
    (mode = "global" /\ Initialized /\ matrix # NoMatrix) =>
        /\ get(matrix, 0, 0) = [score |-> 0, arrows |-> 0]
        /\ \A i \in 1..n :
               get(matrix, i, 0) = [score |-> scoring.gap_open * i, arrows |-> 2]
        /\ \A j \in 1..m :
               get(matrix, 0, j) = [score |-> scoring.gap_open * j, arrows |-> 4]
        /\ gap_penalty(scoring, 0) = 0
        /\ \A len \in 1..(n + m) :
               gap_penalty(scoring, len) = scoring.gap_open * len

C17_Witness ==
    /\ mode = "global" /\ pc = "fill" /\ ii = 1 /\ jj = 1
    /\ n = 2 /\ m = 2
    /\ get(matrix, 2, 0) = [score |-> scoring.gap_open * 2, arrows |-> 2]
    /\ get(matrix, 0, 2) = [score |-> scoring.gap_open * 2, arrows |-> 4]
    /\ get(matrix, 1, 1) = CellDefault

\* fill_matrix_linear has just returned, or align has
FillDone ==
    /\ matrix # NoMatrix
    /\ \/ pc = "assemble"
       \/ pc = "traceback" /\ stack = <<>> /\ all_paths = <<>>
       \/ pc = "done"

\* what the substitution score of cell (i, j) has to be for the diagonal
\* operand to equal the score of the cell, and likewise the gap penalty for
\* the up and the left operand
DiagRoom(i, j) == get(matrix, i, j).score - get(matrix, i - 1, j - 1).score
UpRoom(i, j) == get(matrix, i, j).score - get(matrix, i - 1, j).score
LeftRoom(i, j) == get(matrix, i, j).score - get(matrix, i, j - 1).score
Substitution(i, j) == substitution_score(scoring, seq1[i], seq2[j]).val

\* no operand of cell (i, j) is above its score
NoOperandAbove(i, j) ==
    /\ Substitution(i, j) <= DiagRoom(i, j)
    /\ scoring.gap_open <= UpRoom(i, j)
    /\ scoring.gap_open <= LeftRoom(i, j)

\* the arrows of cell (i, j) are exactly the operands equal to its score
ArrowsAreTheTies(i, j) ==
    LET arrows == get(matrix, i, j).arrows
    IN  /\ arrows \in {1, 3, 5, 7} <=> Substitution(i, j) = DiagRoom(i, j)
        /\ arrows \in {2, 3, 6, 7} <=> scoring.gap_open = UpRoom(i, j)
        /\ arrows \in {4, 5, 6, 7} <=> scoring.gap_open = LeftRoom(i, j)
        /\ arrows \in 0..7

(***************************************************************************)
(* C18: in the completed global matrix, for every cell (i,j) with i >= 1   *)
(* and j >= 1, score(i,j) = max(diag, up, left) with                       *)
(* diag = cell(i-1,j-1).score + substitution_score(seq1[i-1], seq2[j-1]),  *)
(* up = cell(i-1,j).score + gap_open, left = cell(i,j-1).score + gap_open, *)
(* and the arrows are exactly the operands equal to that maximum.          *)
(***************************************************************************)
C18_GlobalRecurrence ==
    (mode = "global" /\ FillDone) =>
        \A i \in 1..n : \A j \in 1..m :
            /\ NoOperandAbove(i, j)
            /\ get(matrix, i, j).arrows # NONE
            /\ ArrowsAreTheTies(i, j)

C18_Witness ==
    /\ mode = "global" /\ FillDone /\ n = 2 /\ m = 2
    /\ get(matrix, 1, 1).arrows = 7
    /\ get(matrix, 2, 2).arrows = 6
    /\ ArrowsAreTheTies(1, 1) /\ ArrowsAreTheTies(2, 2)

(***************************************************************************)
(* C19: in the completed local matrix, for every cell (i,j) with i >= 1    *)
(* and j >= 1, score(i,j) = max(diag, up, left, 0); a cell of score > 0    *)
(* has exactly the arrows of the operands equal to its score, at least     *)
(* one; a cell of score 0 has no arrows, even when an operand equals 0.    *)
(***************************************************************************)
C19_LocalRecurrence ==
    (mode = "local" /\ FillDone) =>
        \A i \in 1..n : \A j \in 1..m :
            /\ NoOperandAbove(i, j)
            /\ get(matrix, i, j).score >= 0
            /\ IF get(matrix, i, j).score > 0
               THEN /\ ArrowsAreTheTies(i, j)
                    /\ get(matrix, i, j).arrows # NONE
               ELSE get(matrix, i, j).arrows = NONE

C19_Witness ==
    /\ mode = "local" /\ FillDone /\ n = 2 /\ m = 2
    /\ get(matrix, 1, 1).score > 0 /\ get(matrix, 1, 1).arrows = 1
    /\ \E i \in 1..n : \E j \in 1..m :
           /\ get(matrix, i, j) = [score |-> 0, arrows |-> 0]
           /\ scoring.gap_open = UpRoom(i, j)

\* the coordinates of the cells holding the score v
CellsWithScore(v) ==
    {c \in (0..n) \X (0..m) : get(matrix, c[1], c[2]).score = v}

(***************************************************************************)
(* C20: after the local fill, max_score is the maximum score over all      *)
(* cells of the matrix (0 when no cell is positive); when max_score > 0    *)
(* max_positions holds exactly the coordinates of the cells whose score is *)
(* max_score, each once, positions recorded for an earlier, smaller        *)
(* maximum being dropped; when max_score = 0 it is empty.                  *)
(***************************************************************************)
C20_MaxTracking ==
    (mode = "local" /\ FillDone) =>
        /\ max_score = MatrixMax
        /\ max_score >= 0
        /\ IF max_score > 0
           THEN /\ {max_positions[k] : k \in DOMAIN max_positions}
                       = CellsWithScore(max_score)
                /\ Len(max_positions) = Cardinality(CellsWithScore(max_score))
           ELSE max_positions = <<>>

C20_Witness ==
    /\ mode = "local" /\ FillDone /\ n = 2 /\ m = 2
    /\ Len(max_positions) = 2
    /\ get(matrix, 1, 1).score > 0
    /\ get(matrix, 1, 1).score < max_score

\* the move from step a to step b of a path follows an arrow of cell a
ArrowMove(a, b) ==
    LET arrows == get(matrix, a[1], a[2]).arrows
    IN  \/ b = <<a[1] - 1, a[2] - 1>> /\ arrows \in {1, 3, 5, 7}
        \/ b = <<a[1] - 1, a[2]>> /\ arrows \in {2, 3, 6, 7}
        \/ b = <<a[1], a[2] - 1>> /\ arrows \in {4, 5, 6, 7}

\* the start and the stop cells as the claim names them
IsStartCell(c) ==
    IF mode = "global" THEN c = <<n, m>>
    ELSE get(matrix, c[1], c[2]).score = result.final_score

IsStopCell(c) ==
    IF mode = "global" THEN c = <<0, 0>>
    ELSE get(matrix, c[1], c[2]).score = 0

(***************************************************************************)
(* C21: every returned TracebackPath starts at a start coordinate ((n,m)   *)
(* in global mode, a cell whose score is final_score in local mode), ends  *)
(* at a stop cell ((0,0) in global mode, a cell of score 0 in local mode), *)
(* includes both, holds no stop cell before its last step, and each step   *)
(* goes from (i,j) to (i-1,j-1), (i-1,j) or (i,j-1) with the DIAGONAL, UP  *)
(* or LEFT arrow set in cell (i,j).                                        *)
(***************************************************************************)
C21_PathShape ==
    Returned =>
        \A k \in DOMAIN result.traceback_paths :
            LET p == result.traceback_paths[k]
            IN  /\ Len(p) >= 1
                /\ \A t \in DOMAIN p : p[t] \in (0..n) \X (0..m)
                /\ IsStartCell(p[1])
                /\ IsStopCell(p[Len(p)])
                /\ \A t \in 1..(Len(p) - 1) :
                       /\ ~IsStopCell(p[t])
                       /\ ArrowMove(p[t], p[t + 1])

C21_Witness ==
    /\ Returned /\ mode = "local" /\ n = 2 /\ m = 2
    /\ \E k \in DOMAIN result.traceback_paths :
           LET p == result.traceback_paths[k]
           IN  /\ Len(p) = 3
               /\ p[3] # <<0, 0>>
               /\ IsStartCell(p[1]) /\ IsStopCell(p[3])
               /\ ArrowMove(p[1], p[2]) /\ ArrowMove(p[2], p[3])

\* the column a move from step a to step b of a path contributes
PathColumn(a, b) ==
    IF b = <<a[1] - 1, a[2] - 1>> THEN <<seq1[a[1]], seq2[a[2]]>>
    ELSE IF b = <<a[1] - 1, a[2]>> THEN <<seq1[a[1]], GAP>>
    ELSE <<GAP, seq2[a[2]]>>

\* the columns of a path, read from its last step to its first
PathRendering(p) ==
    [seq1_aligned |->
        [c \in 1..(Len(p) - 1) |-> PathColumn(p[Len(p) - c], p[Len(p) - c + 1])[1]],
     seq2_aligned |->
        [c \in 1..(Len(p) - 1) |-> PathColumn(p[Len(p) - c], p[Len(p) - c + 1])[2]]]

\* alignments[k] is the rendering of traceback_paths[k], one column a move
RenderedFromPath(k) ==
    LET p == result.traceback_paths[k]
        pair == result.alignments[k]
    IN  /\ pair = PathRendering(p)
        /\ Len(pair.seq1_aligned) = Len(p) - 1
        /\ Len(pair.seq2_aligned) = Len(p) - 1

\* no column of alignments[k] has a gap on both sides, and its residues are
\* the stretch of seq1 and of seq2 between the stop and the start cell
ResiduesFromPath(k) ==
    LET p == result.traceback_paths[k]
        pair == result.alignments[k]
    IN  /\ \A c \in DOMAIN pair.seq1_aligned :
               c \in DOMAIN pair.seq2_aligned =>
                   ~(pair.seq1_aligned[c] = GAP /\ pair.seq2_aligned[c] = GAP)
        /\ RemoveGaps(pair.seq1_aligned)
               = SubSeq(seq1, p[Len(p)][1] + 1, p[1][1])
        /\ RemoveGaps(pair.seq2_aligned)
               = SubSeq(seq2, p[Len(p)][2] + 1, p[1][2])

(***************************************************************************)
(* C22 as stated: alignments and traceback_paths have the same length and  *)
(* alignments[k] is the column rendering of traceback_paths[k] read from   *)
(* the last step to the first (diagonal: both residues, up: residue of     *)
(* seq1 over a gap, left: gap over residue of seq2); the aligned length is *)
(* the number of steps minus one, no column has a gap on both sides, and   *)
(* the residues of each side are the contiguous stretch of seq1 and seq2   *)
(* between the stop cell and the start cell.                               *)
(***************************************************************************)
C22_PathRendering ==
    Returned =>
        /\ Len(result.alignments) = Len(result.traceback_paths)
        /\ \A k \in DOMAIN result.alignments :
               RenderedFromPath(k) /\ ResiduesFromPath(k)

(***************************************************************************)
(* C22 amended: the two lists have the same length; for sequences of ASCII *)
(* bytes alignments[k] is the column rendering of traceback_paths[k] and   *)
(* its length is the number of steps minus one; when moreover no byte of   *)
(* the sequences is '-', no column has a gap on both sides and the         *)
(* residues of each side are the stretch of seq1 and seq2 between the stop *)
(* cell and the start cell.                                                *)
(***************************************************************************)
C22_PathRendering_Ascii ==
    Returned =>
        /\ Len(result.alignments) = Len(result.traceback_paths)
        /\ (Ascii(seq1) /\ Ascii(seq2)) =>
               \A k \in DOMAIN result.alignments : RenderedFromPath(k)
        /\ (PlainResidues(seq1) /\ PlainResidues(seq2)) =>
               \A k \in DOMAIN result.alignments : ResiduesFromPath(k)

C22_Witness ==
    /\ Returned /\ PlainResidues(seq1) /\ PlainResidues(seq2)
    /\ n = 2 /\ m = 2 /\ seq1[1] # seq1[2]
    /\ \E k \in DOMAIN result.alignments :
           /\ Len(result.traceback_paths[k]) = 4
           /\ result.traceback_paths[k][2] = <<1, 2>>
           /\ result.traceback_paths[k][3] = <<1, 1>>
           /\ RenderedFromPath(k) /\ ResiduesFromPath(k)

\* the writes of fill_matrix_linear and those of initialize_matrix, in order
FillWrites == SelectSeq(writes, LAMBDA c : c[1] >= 1 /\ c[2] >= 1)
BorderWrites == SelectSeq(writes, LAMBDA c : c[1] = 0 \/ c[2] = 0)

RowMajorBefore(a, b) == a[1] < b[1] \/ (a[1] = b[1] /\ a[2] < b[2])

StrictlyRowMajor(w) ==
    \A s \in DOMAIN w : \A t \in DOMAIN w : s < t => RowMajorBefore(w[s], w[t])

\* the cells a write of (i, j) with i, j >= 1 reads
Neighbours(c) == {<<c[1] - 1, c[2] - 1>>, <<c[1] - 1, c[2]>>, <<c[1], c[2] - 1>>}

\* every write of fill comes after the last write of each cell it reads
NeighboursFinal ==
    \A t \in DOMAIN writes :
        (writes[t][1] >= 1 /\ writes[t][2] >= 1) =>
            \A nb \in Neighbours(writes[t]) :
                /\ \E s \in 1..(t - 1) : writes[s] = nb
                /\ \A s \in (t + 1)..Len(writes) : writes[s] # nb

\* no write of row 0 or column 0 follows a write of fill
BorderNotRewritten ==
    \A s \in DOMAIN writes : \A t \in DOMAIN writes :
        (s < t /\ writes[s][1] >= 1 /\ writes[s][2] >= 1) =>
            (writes[t][1] >= 1 /\ writes[t][2] >= 1)

\* the inputs of align are left as they are, and so is the matrix once
\* fill_matrix_linear has returned
OnlyMatrixDuringFill ==
    /\ mode' = mode /\ seq1' = seq1 /\ seq2' = seq2 /\ scoring' = scoring
    /\ pc \in {"traceback", "assemble", "done"} =>
           matrix' = matrix /\ writes' = writes

(***************************************************************************)
(* C23 as stated: within one call the matrix is the only value mutated; it *)
(* is written in strictly increasing row then column order, each cell      *)
(* exactly once; a cell is written only after the up, left and diagonal    *)
(* neighbours it reads hold their final values; fill never rewrites row 0  *)
(* or column 0; and the matrix is not modified after fill.                 *)
(***************************************************************************)
C23_WriteOrder ==
    /\ [](FillDone =>
            /\ StrictlyRowMajor(writes)
            /\ \A i \in 0..n : \A j \in 0..m : WriteCount(i, j) = 1
            /\ NeighboursFinal
            /\ BorderNotRewritten)
    /\ [][OnlyMatrixDuringFill]_vars

\* the writes of initialize_matrix: column 0 downwards, then row 0 rightwards
BorderOrder ==
    IF mode = "global"
    THEN <<<<0, 0>>>> \o [i \in 1..n |-> <<i, 0>>] \o [j \in 1..m |-> <<0, j>>]
    ELSE [i \in 1..(n + 1) |-> <<i - 1, 0>>] \o [j \in 1..(m + 1) |-> <<0, j - 1>>]

(***************************************************************************)
(* C23 amended: within one call the inputs are not changed and the matrix  *)
(* is written only up to the end of fill.  Initialization writes column 0  *)
(* downwards and then row 0 rightwards, each border cell once, except that *)
(* LocalAligner writes (0,0) twice; fill then writes the cells with        *)
(* i, j >= 1 in strictly increasing row then column order, each exactly    *)
(* once; a cell of fill is written only after the last write of the up,    *)
(* left and diagonal neighbours it reads; fill never rewrites row 0 or     *)
(* column 0; and the matrix is not modified after fill.                    *)
(***************************************************************************)
C23_WriteOrder_FillCells ==
    /\ [](FillDone =>
            /\ writes = BorderWrites \o FillWrites
            /\ BorderWrites = BorderOrder
            /\ StrictlyRowMajor(FillWrites)
            /\ \A i \in 1..n : \A j \in 1..m : WriteCount(i, j) = 1
            /\ NeighboursFinal
            /\ BorderNotRewritten)
    /\ [][OnlyMatrixDuringFill]_vars

C23_Witness ==
    /\ Returned /\ mode = "local" /\ n = 2 /\ m = 2
    /\ WriteCount(0, 0) = 2
    /\ FillWrites = <<<<1, 1>>, <<1, 2>>, <<2, 1>>, <<2, 2>>>>
    /\ writes = BorderOrder \o FillWrites

\* the cells the next step of the call reads or writes
MatrixAccesses ==
    IF pc = "init_col" /\ ii <= n THEN {<<ii, 0>>}
    ELSE IF pc = "init_row" /\ jj <= m THEN {<<0, jj>>}
    ELSE IF pc = "fill" /\ ii <= n /\ m >= 1
    THEN {<<ii - 1, jj - 1>>, <<ii - 1, jj>>, <<ii, jj - 1>>, <<ii, jj>>}
    ELSE IF pc = "fill" /\ mode = "global" THEN {<<n, m>>}
    ELSE IF pc = "traceback" /\ stack # <<>>
    THEN {<<Head(stack).i, Head(stack).j>>}
    ELSE {}

\* the arrows the next call of traceback_recursive follows
FollowedArrows ==
    IF pc = "traceback" /\ stack # <<>>
    THEN LET f == Head(stack)
             cell == get(matrix, f.i, f.j)
         IN  IF stop_condition(f.i, f.j, cell)
                \/ (stop_on_no_arrows /\ cell.arrows = 0)
             THEN {}
             ELSE {a \in {DIAGONAL, UP, LEFT} :
                      \/ a = DIAGONAL /\ has_diagonal(cell.arrows)
                                      /\ f.i > 0 /\ f.j > 0
                      \/ a = UP /\ has_up(cell.arrows) /\ f.i > 0
                      \/ a = LEFT /\ has_left(cell.arrows) /\ f.j > 0}
    ELSE {}

\* the indices into seq1 and into seq2 (counted from 0, as the source does)
\* the next step reads
Seq1Accesses ==
    IF pc = "fill" /\ ii <= n /\ m >= 1 THEN {ii - 1}
    ELSE IF FollowedArrows \cap {DIAGONAL, UP} # {} THEN {Head(stack).i - 1}
    ELSE {}

Seq2Accesses ==
    IF pc = "fill" /\ ii <= n /\ m >= 1 THEN {jj - 1}
    ELSE IF FollowedArrows \cap {DIAGONAL, LEFT} # {} THEN {Head(stack).j - 1}
    ELSE {}

\* the cells the recursive calls of the next step are made on
CalledCells ==
    IF FollowedArrows = {} THEN {}
    ELSE LET f == Head(stack)
         IN  {c \in {<<f.i - 1, f.j - 1>>, <<f.i - 1, f.j>>, <<f.i, f.j - 1>>} :
                 \/ c = <<f.i - 1, f.j - 1>> /\ DIAGONAL \in FollowedArrows
                 \/ c = <<f.i - 1, f.j>> /\ UP \in FollowedArrows
                 \/ c = <<f.i, f.j - 1>> /\ LEFT \in FollowedArrows}

TypedOutcomes == {"Ok", "InvalidCharacter", "Other"}

(***************************************************************************)
(* C24: for every input, align in either mode never indexes the matrix or  *)
(* a sequence out of bounds during initialization, fill or traceback:      *)
(* every cell it reads or writes has 0 <= i <= n and 0 <= j <= m, within a *)
(* matrix of (n+1) x (m+1) cells, every residue index is in 0..n-1 for     *)
(* seq1 and 0..m-1 for seq2; and when the call has ended it has returned   *)
(* Ok(result) or a typed AlignmentError.                                   *)
(***************************************************************************)
C24_NoOutOfBounds ==
    /\ pc \in {"init_col", "init_row", "fill", "traceback"} =>
           /\ matrix.rows = n + 1 /\ matrix.cols = m + 1
           /\ Len(matrix.cells) = (n + 1) * (m + 1)
           /\ MatrixAccesses \subseteq (0..n) \X (0..m)
           /\ Seq1Accesses \subseteq 0..(n - 1)
           /\ Seq2Accesses \subseteq 0..(m - 1)
           /\ CalledCells \subseteq (0..n) \X (0..m)
           /\ \A k \in DOMAIN starts : starts[k] \in (0..n) \X (0..m)
    /\ pc = "done" => result.tag \in TypedOutcomes

C24_Witness ==
    /\ pc = "traceback" /\ mode = "local" /\ n = 2 /\ m = 2
    /\ stack # <<>> /\ Head(stack).i = 1 /\ Head(stack).j = 1
    /\ FollowedArrows = {DIAGONAL}
    /\ Seq1Accesses = {0} /\ Seq2Accesses = {0}
    /\ CalledCells = {<<0, 0>>}

\* the call of traceback_recursive about to run neither emits nor recurses
Abandoned ==
    /\ pc = "traceback" /\ stack # <<>>
    /\ LET f == Head(stack)
           cell == get(matrix, f.i, f.j)
       IN  /\ ~(stop_condition(f.i, f.j, cell)
                \/ (stop_on_no_arrows /\ cell.arrows = 0))
           /\ FollowedArrows = {}

\* the moves made on the branch up to the call f
Moves(f) == Len(f.current_path)

(***************************************************************************)
(* C25: on a matrix produced by initialization and fill every traceback    *)
(* branch makes at most n+m moves, each of them to a cell of smaller i+j,  *)
(* and ends by emitting one path and one AlignedPair: no call is on a      *)
(* non-stop cell without a usable arrow.  So a GlobalAligner returns at    *)
(* least one alignment, and a LocalAligner does when final_score > 0.      *)
(***************************************************************************)
C25_TracebackTerminates ==
    /\ pc = "traceback" =>
           /\ ~Abandoned
           /\ Len(all_paths) = Len(all_alignments)
           /\ \A k \in DOMAIN stack :
                  /\ Moves(stack[k]) + stack[k].i + stack[k].j <= n + m
                  /\ Moves(stack[k]) = Len(stack[k].current_aln1)
                  /\ Moves(stack[k]) = Len(stack[k].current_aln2)
                  /\ \A t \in 1..(Moves(stack[k]) - 1) :
                         LET a == stack[k].current_path[t]
                             b == stack[k].current_path[t + 1]
                         IN  b[1] + b[2] < a[1] + a[2]
    /\ Returned =>
           /\ Len(result.traceback_paths) = Len(result.alignments)
           /\ \A k \in DOMAIN result.traceback_paths :
                  LET p == result.traceback_paths[k]
                  IN  /\ Len(p) - 1 <= n + m
                      /\ \A t \in 1..(Len(p) - 1) :
                             p[t + 1][1] + p[t + 1][2] < p[t][1] + p[t][2]
           /\ mode = "global" => Len(result.alignments) >= 1
           /\ (mode = "local" /\ result.final_score > 0) =>
                  Len(result.alignments) >= 1

C25_Witness ==
    /\ Returned /\ mode = "global" /\ n = 2 /\ m = 1
    /\ \E k \in DOMAIN result.traceback_paths :
           /\ Len(result.traceback_paths[k]) = n + m + 1
           /\ result.traceback_paths[k][3] = <<1, 0>>
           /\ Len(result.alignments[k].seq1_aligned) >= 1

\* both validations of the call succeed
Validated == validate(scoring.scorer, seq1).ok /\ validate(scoring.scorer, seq2).ok

\* substitution_score is Ok for every residue pair fill meets
FillScoresOk ==
    \A i \in 1..n : \A j \in 1..m :
        substitution_score(scoring, seq1[i], seq2[j]).ok

(***************************************************************************)
(* C26: when the gap configuration is linear and validate succeeds for     *)
(* both sequences, substitution_score returns no error for any residue     *)
(* pair met during fill and align returns Ok; InvalidCharacter is raised   *)
(* by the validation before fill only, never once a matrix has been        *)
(* allocated or partly filled.                                             *)
(***************************************************************************)
C26_ValidatedNeverFails ==
    /\ (Linear /\ Validated) =>
           /\ pc \in {"new_matrix", "init_col", "init_row", "fill"} => FillScoresOk
           /\ pc = "done" => result.tag = "Ok"
    /\ pc \in {"new_matrix", "init_col", "init_row", "fill", "traceback",
                "assemble"} => Linear /\ Validated
    /\ (pc = "done" /\ result.tag = "InvalidCharacter") =>
           /\ matrix = NoMatrix /\ writes = <<>>
           /\ ~Validated

C26_Witness ==
    /\ Returned /\ scoring.scorer.kind = "Matrix" /\ Linear /\ Validated
    /\ n = 2 /\ m = 2 /\ seq1 # seq2 /\ seq1[1] # seq1[2]
    /\ matrix # NoMatrix /\ FillScoresOk

====
